---- MODULE Spec2Model ----
(***************************************************************************)
(* Model of src/cache_simulator.py: the CacheSimulator engine (a per-core  *)
(* cache, a shared store, a MESI state table and three counters, all       *)
(* behind one lock) and the worker threads that drive it.                  *)
(*                                                                         *)
(* Spec        the engine as its callers see it: init_thread_cache and     *)
(*             access_memory are whole calls, issued in any order by any   *)
(*             registered core, in either protocol mode.                   *)
(* SpecThreads the program as run_simulation runs it: one worker thread    *)
(*             per core, each registering its core and then issuing its    *)
(*             accesses, interleaved at every point where one thread can   *)
(*             see another's effect (the lock, the registration's two      *)
(*             assignments, each step of an iteration over self.caches).   *)
(* SpecMisuse  Spec plus the calls the driver never makes: access_memory   *)
(*             for a core that was never registered, and with an access    *)
(*             type that is neither 'read' nor 'write'.                    *)
(***************************************************************************)
EXTENDS Integers, Sequences, FiniteSets, TLC

\* ------------------------------------------------------------------ bounds
NumCores == 3
NumAddrs == 1
MaxValue == 1
MaxOps == 3
NumThreads == 2
NumOperations == 2
MaxRunOps == 3

\* ------------------------------------------------------- program constants
AddressNames == <<"A", "B", "C", "D">>
Cores == 0 .. (NumCores - 1)
Threads == 0 .. (NumThreads - 1)
Addresses == {AddressNames[i] : i \in 1 .. NumAddrs}
WriteValues == 1 .. MaxValue
Baseline == 0
Protocols == {"MESI", "none"}
AccessTypes == {"read", "write"}

VARIABLES
    protocol,          \* self.protocol
    caches,            \* self.caches: thread_id -> (address -> value)
    caches_order,      \* key order of self.caches, as the worker threads iterate it
    shared_memory,     \* self.shared_memory: address -> value
    coherence_states,  \* self.coherence_states: thread_id -> (address -> state)
    metrics,           \* self.metrics
    last,              \* the most recent access_memory call and what it did
    wr,                \* per address: the latest write and who held a copy then
    touched,           \* per address: a core other than the writer accessed it since
    on_script,         \* every access so far followed the end-to-end scenario
    lock,              \* self.lock is held
    pc,                \* per worker thread: where it stands in worker()
    ops_left,          \* per worker thread: iterations of its loop still to run
    loc                \* per worker thread: the locals of its call in progress

engine_vars == <<protocol, caches, shared_memory, coherence_states, metrics>>
observer_vars == <<last, wr, touched, on_script>>
thread_vars == <<caches_order, lock, pc, ops_left, loc>>
vars == <<engine_vars, observer_vars, thread_vars>>

\* ----------------------------------------------------------------- helpers
Put(f, k, v) == [x \in DOMAIN f \cup {k} |-> IF x = k THEN v ELSE f[x]]

NoCall ==
    [core |-> -1, addr |-> "-", kind |-> "-", ret |-> -1, pre |-> "-",
     fresh |-> FALSE, fill |-> -1, d_acc |-> 0, d_miss |-> 0, d_msgs |-> 0,
     raised |-> FALSE]

NoWrite == [core |-> -1, val |-> -1, held |-> << >>]

NoLocals ==
    [address |-> "-", access_type |-> "-", state |-> "-", other |-> FALSE,
     it_i |-> 0, it_n |-> 0]

\* Engine state as one value, threaded through the methods below.
Engine ==
    [caches |-> caches, shared_memory |-> shared_memory,
     coherence_states |-> coherence_states, metrics |-> metrics]

\* self.coherence_states[tid][address] on a defaultdict(lambda: 'I'): the
\* value read, and the table with the record the lookup creates.
StateOf(cs, tid, address) ==
    IF address \in DOMAIN cs[tid] THEN cs[tid][address] ELSE "I"

Lookup(cs, tid, address) ==
    [cs EXCEPT ![tid] = Put(cs[tid], address, StateOf(cs, tid, address))]

\* any(address in c for tid, c in self.caches.items() if tid != thread_id)
OtherHasCopy(e, thread_id, address) ==
    \E tid \in DOMAIN e.caches :
        tid # thread_id /\ address \in DOMAIN e.caches[tid]

\* Faulty variant: the read miss leaves the other cores' states as they are.
ShareAll_Skip(e, cs, address) == cs

\* Faulty variant: the read miss leaves Invalid records Invalid.
ShareAll_ValidOnly(e, cs, address) ==
    [tid \in DOMAIN cs |->
        IF tid \in DOMAIN e.caches /\ address \in DOMAIN cs[tid]
           /\ cs[tid][address] # "I"
        THEN [cs[tid] EXCEPT ![address] = "S"]
        ELSE cs[tid]]

\* for tid in self.caches: if address in cs[tid]: cs[tid][address] = 'S'
ShareAll(e, cs, address) ==
    [tid \in DOMAIN cs |->
        IF tid \in DOMAIN e.caches /\ address \in DOMAIN cs[tid]
        THEN [cs[tid] EXCEPT ![address] = "S"]
        ELSE cs[tid]]

\* Faulty variant: a write invalidates nobody.
InvalidateOthers_Skip(e, cs, thread_id, address) == cs

\* for tid in self.caches: if tid != thread_id and address in cs[tid]:
\*     cs[tid][address] = 'I'
InvalidateOthers(e, cs, thread_id, address) ==
    [tid \in DOMAIN cs |->
        IF tid \in DOMAIN e.caches /\ tid # thread_id
           /\ address \in DOMAIN cs[tid]
        THEN [cs[tid] EXCEPT ![address] = "I"]
        ELSE cs[tid]]

SetState(cs, tid, address, s) == [cs EXCEPT ![tid] = Put(cs[tid], address, s)]

\* Faulty variant: '=' in place of '+='.
Bump_Assign(m, counter, n) == [m EXCEPT ![counter] = n]

Bump(m, counter, n) == [m EXCEPT ![counter] = @ + n]

\* Faulty variant: the store entry is created with a value other than the baseline.
TouchShared_One(sm, address) ==
    IF address \in DOMAIN sm THEN sm ELSE Put(sm, address, 1)

\* if address not in self.shared_memory: self.shared_memory[address] = 0
TouchShared(sm, address) ==
    IF address \in DOMAIN sm THEN sm ELSE Put(sm, address, Baseline)

\* ------------------------------------------------- access_without_coherence
\* Faulty variant: the miss is counted twice.
MissNone_Twice(e, thread_id, address) ==
    LET sm == TouchShared(e.shared_memory, address)
    IN  [e EXCEPT !.metrics = Bump(@, "cache_misses", 2),
                  !.shared_memory = sm,
                  !.caches[thread_id] = Put(@, address, sm[address])]

\* Faulty variant: every access refills the cache from the store.
IsMissNone_Always(e, thread_id, address) == TRUE

IsMissNone(e, thread_id, address) == address \notin DOMAIN e.caches[thread_id]

MissNone(e, thread_id, address) ==
    LET sm == TouchShared(e.shared_memory, address)
    IN  [e EXCEPT !.metrics = Bump(@, "cache_misses", 1),
                  !.shared_memory = sm,
                  !.caches[thread_id] = Put(@, address, sm[address])]

\* Faulty variant: a write-back cache, the store is not written.
WriteThrough_CacheOnly(e, thread_id, address, value) ==
    [e EXCEPT !.caches[thread_id] = Put(@, address, value)]

WriteThrough(e, thread_id, address, value) ==
    [e EXCEPT !.caches[thread_id] = Put(@, address, value),
              !.shared_memory = Put(@, address, value)]

access_without_coherence(e, thread_id, address, access_type, value) ==
    LET miss == IsMissNone(e, thread_id, address)
        e1 == IF miss THEN MissNone(e, thread_id, address) ELSE e
        fill == IF miss THEN e1.caches[thread_id][address] ELSE -1
    IN  IF access_type = "read"
        THEN [e |-> e1, ret |-> e1.caches[thread_id][address], fill |-> fill,
              raised |-> FALSE]
        ELSE [e |-> WriteThrough(e1, thread_id, address, value),
              ret |-> value, fill |-> fill, raised |-> FALSE]

\* --------------------------------------------------------- access_with_mesi
\* Faulty variant: the miss test forgets the Invalid state.
IsMissMesi_NoState(e, thread_id, address, state) ==
    address \notin DOMAIN e.caches[thread_id]

IsMissMesi(e, thread_id, address, state) ==
    address \notin DOMAIN e.caches[thread_id] \/ state = "I"

ReadMiss(e, cs, thread_id, address) ==
    IF OtherHasCopy(e, thread_id, address)
    THEN [e EXCEPT
            !.coherence_states =
                SetState(ShareAll(e, cs, address), thread_id, address, "S"),
            !.metrics = Bump(@, "coherence_messages", 2)]
    ELSE [e EXCEPT
            !.coherence_states = SetState(cs, thread_id, address, "E"),
            !.metrics = Bump(@, "coherence_messages", 1)]

\* Faulty variant: the write miss is charged one message instead of two.
WriteMiss_OneMessage(e, cs, thread_id, address) ==
    [e EXCEPT
        !.coherence_states =
            SetState(InvalidateOthers(e, cs, thread_id, address),
                     thread_id, address, "M"),
        !.metrics = Bump(@, "coherence_messages", 1)]

WriteMiss(e, cs, thread_id, address) ==
    [e EXCEPT
        !.coherence_states =
            SetState(InvalidateOthers(e, cs, thread_id, address),
                     thread_id, address, "M"),
        !.metrics = Bump(@, "coherence_messages", 2)]

MissMesi(e, thread_id, address, access_type) ==
    LET e1 == [e EXCEPT !.metrics = Bump(@, "cache_misses", 1),
                        !.shared_memory = TouchShared(@, address)]
        e2 == IF access_type = "read"
              THEN ReadMiss(e1, e1.coherence_states, thread_id, address)
              ELSE WriteMiss(e1, e1.coherence_states, thread_id, address)
    IN  [e2 EXCEPT !.caches[thread_id] =
                        Put(@, address, e2.shared_memory[address])]

\* Faulty variant: a write hit on a Shared line is treated like any other hit.
UpgradeShared_None(e, thread_id, address) == e

UpgradeShared(e, thread_id, address) ==
    [e EXCEPT
        !.coherence_states =
            InvalidateOthers(e, SetState(@, thread_id, address, "M"),
                             thread_id, address),
        !.metrics = Bump(@, "coherence_messages", 1)]

access_with_mesi(e, thread_id, address, access_type, value) ==
    LET state == StateOf(e.coherence_states, thread_id, address)
        e0 == [e EXCEPT !.coherence_states = Lookup(@, thread_id, address)]
        miss == IsMissMesi(e0, thread_id, address, state)
        e1 == IF miss THEN MissMesi(e0, thread_id, address, access_type)
              ELSE e0
        fill == IF miss THEN e1.caches[thread_id][address] ELSE -1
    IN  IF access_type = "read"
        THEN [e |-> e1, ret |-> e1.caches[thread_id][address], fill |-> fill,
              raised |-> FALSE]
        ELSE LET e2 == IF state = "S"
                       THEN UpgradeShared(e1, thread_id, address)
                       ELSE e1
             IN  [e |-> WriteThrough(e2, thread_id, address, value),
                  ret |-> value, fill |-> fill, raised |-> FALSE]

\* ------------------------------------------------------------ access_memory
\* cache = self.caches[thread_id] for a thread_id that is no key: KeyError,
\* raised out of the with-statement with what was done before it kept.
KeyError(e) == [e |-> e, ret |-> -1, fill |-> -1, raised |-> TRUE]

access_memory(e, proto, thread_id, address, access_type, value) ==
    LET e1 == [e EXCEPT !.metrics = Bump(@, "memory_accesses", 1)]
    IN  IF thread_id \notin DOMAIN e.caches
        THEN KeyError(e1)
        ELSE IF proto = "none"
        THEN access_without_coherence(e1, thread_id, address, access_type, value)
        ELSE access_with_mesi(e1, thread_id, address, access_type, value)

\* --------------------------------------------------------- init_thread_cache
RegisterCaches(c, thread_id) == Put(c, thread_id, << >>)

\* Faulty variant: the state table is created whatever the protocol.
RegisterStates_Always(cs, proto, thread_id) == Put(cs, thread_id, << >>)

RegisterStates(cs, proto, thread_id) ==
    IF proto = "MESI" THEN Put(cs, thread_id, << >>) ELSE cs

\* ------------------------------------------------------------ observations
\* An address no core has touched: absent from the store and from every cache.
Untouched(address) ==
    /\ address \notin DOMAIN shared_memory
    /\ \A tid \in DOMAIN caches : address \notin DOMAIN caches[tid]

\* The cores other than thread_id that hold address cached, with their values.
Holders(thread_id, address) ==
    [tid \in {t \in DOMAIN caches :
                t # thread_id /\ address \in DOMAIN caches[t]}
        |-> caches[tid][address]]

ScriptStep(n, thread_id, address, access_type) ==
    \/ n = 0 /\ thread_id = 0 /\ access_type = "write"
    \/ n = 1 /\ thread_id = 1 /\ access_type = "read" /\ address = last.addr
    \/ n = 2 /\ thread_id = 1 /\ access_type = "write" /\ address = last.addr

\* ------------------------------------------------------------------ actions
Init ==
    /\ protocol \in Protocols
    /\ caches = << >>
    /\ shared_memory = << >>
    /\ coherence_states = << >>
    /\ metrics = [cache_misses |-> 0, coherence_messages |-> 0,
                  memory_accesses |-> 0]
    /\ last = NoCall
    /\ wr = [a \in Addresses |-> NoWrite]
    /\ touched = [a \in Addresses |-> FALSE]
    /\ on_script = TRUE
    /\ caches_order = << >>
    /\ lock = FALSE
    /\ pc = [t \in Threads |-> "start"]
    /\ ops_left = [t \in Threads |-> NumOperations]
    /\ loc = [t \in Threads |-> NoLocals]

InitThreadCache(thread_id) ==
    /\ thread_id \notin DOMAIN caches
    /\ caches' = RegisterCaches(caches, thread_id)
    /\ coherence_states' = RegisterStates(coherence_states, protocol, thread_id)
    /\ UNCHANGED <<protocol, shared_memory, metrics, observer_vars,
                   thread_vars>>

\* One call of access_memory, with what an observer of the call records.
Call(thread_id, address, access_type, value) ==
    /\ metrics.memory_accesses < MaxOps
    /\ LET r == access_memory(Engine, protocol, thread_id, address,
                              access_type, value)
       IN  /\ caches' = r.e.caches
           /\ shared_memory' = r.e.shared_memory
           /\ coherence_states' = r.e.coherence_states
           /\ metrics' = r.e.metrics
           /\ last' = [core |-> thread_id, addr |-> address,
                       kind |-> access_type, ret |-> r.ret,
                       pre |-> IF protocol = "MESI"
                                  /\ thread_id \in DOMAIN coherence_states
                               THEN StateOf(coherence_states, thread_id, address)
                               ELSE "-",
                       fresh |-> Untouched(address),
                       raised |-> r.raised,
                       fill |-> r.fill,
                       d_acc |-> r.e.metrics.memory_accesses
                                 - metrics.memory_accesses,
                       d_miss |-> r.e.metrics.cache_misses
                                  - metrics.cache_misses,
                       d_msgs |-> r.e.metrics.coherence_messages
                                  - metrics.coherence_messages]
           /\ IF r.raised
              THEN UNCHANGED <<wr, touched>>
              ELSE IF access_type # "read"
              THEN /\ wr' = [wr EXCEPT ![address] =
                                [core |-> thread_id, val |-> r.ret,
                                 held |-> Holders(thread_id, address)]]
                   /\ touched' = [touched EXCEPT ![address] = FALSE]
              ELSE /\ wr' = wr
                   /\ touched' = [touched EXCEPT ![address] =
                                    @ \/ thread_id # wr[address].core]
           /\ on_script' = (on_script /\ ScriptStep(metrics.memory_accesses,
                                         thread_id, address, access_type))
    /\ UNCHANGED <<protocol, thread_vars>>

AccessMemory(thread_id, address, access_type, value) ==
    /\ thread_id \in DOMAIN caches
    /\ Call(thread_id, address, access_type, value)

Read(thread_id, address) == AccessMemory(thread_id, address, "read", 0)

Write(thread_id, address, value) ==
    AccessMemory(thread_id, address, "write", value)

Next ==
    \/ \E t \in Cores : InitThreadCache(t)
    \/ \E t \in Cores, a \in Addresses : Read(t, a)
    \/ \E t \in Cores, a \in Addresses, v \in WriteValues : Write(t, a, v)

Spec == Init /\ [][Next]_vars

\* ------------------------------------------------------------------- misuse
\* access_memory for a thread_id that init_thread_cache was never called for
AccessUnregistered(thread_id, address, access_type) ==
    /\ thread_id \notin DOMAIN caches
    /\ Call(thread_id, address, access_type, 1)

\* access_memory with an access type other than 'read' and 'write'
AccessOtherType(thread_id, address, value) ==
    AccessMemory(thread_id, address, "flush", value)

NextMisuse ==
    \/ Next
    \/ \E t \in Cores, a \in Addresses, k \in AccessTypes :
           AccessUnregistered(t, a, k)
    \/ \E t \in Cores, a \in Addresses, v \in WriteValues :
           AccessOtherType(t, a, v)

SpecMisuse == Init /\ [][NextMisuse]_vars

\* ----------------------------------------------------------- worker threads
\* Faulty variant: the with-statement enters without waiting for the lock.
CanAcquire_Always == TRUE

\* with self.lock: the body is entered only when the lock is free.
CanAcquire == ~lock

Goto(t, label) == pc' = [pc EXCEPT ![t] = label]

\* A fresh iterator over self.caches: its position and the size it expects.
StartIter(t, l) ==
    loc' = [loc EXCEPT ![t] = [l EXCEPT !.it_i = 0,
                                        !.it_n = Len(caches_order)]]

\* next() on the iterator: 'dictionary changed size during iteration'.
IterStale(t) == Len(caches_order) # loc[t].it_n

IterDone(t) == loc[t].it_i >= loc[t].it_n

IterNext(t) == caches_order[loc[t].it_i + 1]

Advance(t) == loc' = [loc EXCEPT ![t].it_i = @ + 1]

\* cache[address] = self.shared_memory[address]
Fill(c, sm, thread_id, address) ==
    [c EXCEPT ![thread_id] = Put(@, address, sm[address])]

\* value = random.randint(1, 100); cache[address] = value;
\* self.shared_memory[address] = value; return value
StoreNewValue(t, c, address) ==
    \E value \in WriteValues :
        /\ caches' = [c EXCEPT ![t] = Put(@, address, value)]
        /\ shared_memory' = Put(shared_memory, address, value)

\* for _ in range(num_operations): another iteration, or worker returns
LoopOrDone(n) == IF n > 0 THEN "loop" ELSE "done"

\* self.caches[thread_id] = {}
W_RegCaches(t) ==
    /\ pc[t] = "start"
    /\ caches' = RegisterCaches(caches, t)
    /\ caches_order' = Append(caches_order, t)
    /\ Goto(t, "reg_states")
    /\ UNCHANGED <<protocol, shared_memory, coherence_states, metrics,
                   observer_vars, lock, ops_left, loc>>

\* if self.protocol == 'MESI': self.coherence_states[thread_id] = defaultdict
W_RegStates(t) ==
    /\ pc[t] = "reg_states"
    /\ coherence_states' = RegisterStates(coherence_states, protocol, t)
    /\ Goto(t, LoopOrDone(ops_left[t]))
    /\ UNCHANGED <<protocol, caches, shared_memory, metrics, observer_vars,
                   caches_order, lock, ops_left, loc>>

\* One iteration of the worker's loop up to the with-statement: the random
\* address and access type, the call, and the lock taken once it is free.
W_Acquire(t) ==
    /\ pc[t] = "loop"
    /\ ops_left[t] > 0
    /\ metrics.memory_accesses < MaxRunOps
    /\ CanAcquire
    /\ lock' = TRUE
    /\ \E address \in Addresses, access_type \in AccessTypes :
           loc' = [loc EXCEPT ![t] = [NoLocals EXCEPT
                                         !.address = address,
                                         !.access_type = access_type]]
    /\ Goto(t, "enter")
    /\ UNCHANGED <<engine_vars, observer_vars, caches_order, ops_left>>

\* access_memory in mode none: the whole of access_without_coherence.
W_EnterNone(t) ==
    /\ pc[t] = "enter"
    /\ protocol = "none"
    /\ \E value \in WriteValues :
           LET r == access_memory(Engine, protocol, t, loc[t].address,
                                  loc[t].access_type, value)
           IN  /\ caches' = r.e.caches
               /\ shared_memory' = r.e.shared_memory
               /\ metrics' = r.e.metrics
    /\ Goto(t, "release")
    /\ UNCHANGED <<protocol, coherence_states, observer_vars, caches_order,
                   lock, ops_left, loc>>

\* access_memory in MESI mode, up to the first iteration over self.caches:
\* the counter, the state lookup, the miss test, and on a hit the whole call.
W_EnterMesi(t) ==
    /\ pc[t] = "enter"
    /\ protocol # "none"
    /\ LET a == loc[t].address
           state == StateOf(coherence_states, t, a)
           cs0 == Lookup(coherence_states, t, a)
           m1 == Bump(metrics, "memory_accesses", 1)
           l1 == [loc[t] EXCEPT !.state = state]
       IN  IF IsMissMesi(Engine, t, a, state)
           THEN /\ metrics' = Bump(m1, "cache_misses", 1)
                /\ coherence_states' = cs0
                /\ StartIter(t, l1)
                /\ Goto(t, "snoop")
                /\ UNCHANGED <<caches, shared_memory>>
           ELSE /\ metrics' = m1
                /\ IF loc[t].access_type = "read"
                   THEN /\ coherence_states' = cs0
                        /\ Goto(t, "release")
                        /\ UNCHANGED <<caches, shared_memory, loc>>
                   ELSE IF state = "S"
                   THEN /\ coherence_states' = SetState(cs0, t, a, "M")
                        /\ StartIter(t, l1)
                        /\ Goto(t, "upgrade")
                        /\ UNCHANGED <<caches, shared_memory>>
                   ELSE /\ coherence_states' = cs0
                        /\ StoreNewValue(t, caches, a)
                        /\ Goto(t, "release")
                        /\ UNCHANGED loc
    /\ UNCHANGED <<protocol, observer_vars, caches_order, lock, ops_left>>

\* other_has_copy = any(address in c for tid, c in self.caches.items()
\*                      if tid != thread_id): one step of the generator
W_Snoop(t) ==
    /\ pc[t] = "snoop"
    /\ IF IterStale(t)
       THEN /\ Goto(t, "unwind")
            /\ UNCHANGED loc
       ELSE IF IterDone(t)
       THEN /\ loc' = [loc EXCEPT ![t].other = FALSE]
            /\ Goto(t, "branch")
       ELSE IF IterNext(t) # t
               /\ loc[t].address \in DOMAIN caches[IterNext(t)]
       THEN /\ loc' = [loc EXCEPT ![t].other = TRUE]
            /\ Goto(t, "branch")
       ELSE /\ Advance(t)
            /\ UNCHANGED pc
    /\ UNCHANGED <<engine_vars, observer_vars, caches_order, lock, ops_left>>

\* the miss path between the snoop and the fan-out loops
W_Branch(t) ==
    /\ pc[t] = "branch"
    /\ LET a == loc[t].address
           sm == TouchShared(shared_memory, a)
       IN  /\ shared_memory' = sm
           /\ IF loc[t].access_type = "read" /\ ~loc[t].other
              THEN /\ coherence_states' = SetState(coherence_states, t, a, "E")
                   /\ metrics' = Bump(metrics, "coherence_messages", 1)
                   /\ caches' = Fill(caches, sm, t, a)
                   /\ Goto(t, "release")
                   /\ UNCHANGED loc
              ELSE /\ StartIter(t, loc[t])
                   /\ Goto(t, IF loc[t].access_type = "read"
                              THEN "share" ELSE "invalidate")
                   /\ UNCHANGED <<coherence_states, metrics, caches>>
    /\ UNCHANGED <<protocol, observer_vars, caches_order, lock, ops_left>>

\* for tid in self.caches: if address in self.coherence_states[tid]: ... 'S'
\* and, the loop done, the rest of the read miss
W_Share(t) ==
    /\ pc[t] = "share"
    /\ LET a == loc[t].address
       IN  IF IterStale(t)
           THEN /\ Goto(t, "unwind")
                /\ UNCHANGED <<engine_vars, loc>>
           ELSE IF IterDone(t)
           THEN /\ metrics' = Bump(metrics, "coherence_messages", 2)
                /\ coherence_states' = SetState(coherence_states, t, a, "S")
                /\ caches' = Fill(caches, shared_memory, t, a)
                /\ Goto(t, "release")
                /\ UNCHANGED <<protocol, shared_memory, loc>>
           ELSE IF IterNext(t) \notin DOMAIN coherence_states
           THEN /\ Goto(t, "unwind")
                /\ UNCHANGED <<engine_vars, loc>>
           ELSE /\ coherence_states' =
                       IF a \in DOMAIN coherence_states[IterNext(t)]
                       THEN SetState(coherence_states, IterNext(t), a, "S")
                       ELSE coherence_states
                /\ Advance(t)
                /\ UNCHANGED <<protocol, caches, shared_memory, metrics, pc>>
    /\ UNCHANGED <<observer_vars, caches_order, lock, ops_left>>

\* One step of: for tid in self.caches:
\*     if tid != thread_id and address in self.coherence_states[tid]: ... 'I'
\* "raise" when the step raises, "step" when it moved on (never at the end).
InvalidateStep(t) ==
    IF IterStale(t) THEN "raise"
    ELSE IF IterNext(t) # t /\ IterNext(t) \notin DOMAIN coherence_states
    THEN "raise"
    ELSE "step"

InvalidateNext(t, a) ==
    IF IterNext(t) # t /\ a \in DOMAIN coherence_states[IterNext(t)]
    THEN SetState(coherence_states, IterNext(t), a, "I")
    ELSE coherence_states

\* the write miss's invalidation loop and, the loop done, the rest of the call
W_Invalidate(t) ==
    /\ pc[t] = "invalidate"
    /\ LET a == loc[t].address
       IN  IF IterStale(t)
           THEN /\ Goto(t, "unwind")
                /\ UNCHANGED <<engine_vars, loc>>
           ELSE IF IterDone(t)
           THEN /\ metrics' = Bump(metrics, "coherence_messages", 2)
                /\ coherence_states' = SetState(coherence_states, t, a, "M")
                /\ IF loc[t].state = "S"
                   THEN /\ caches' = Fill(caches, shared_memory, t, a)
                        /\ StartIter(t, loc[t])
                        /\ Goto(t, "upgrade")
                        /\ UNCHANGED shared_memory
                   ELSE /\ StoreNewValue(t, Fill(caches, shared_memory, t, a), a)
                        /\ Goto(t, "release")
                        /\ UNCHANGED loc
                /\ UNCHANGED protocol
           ELSE IF InvalidateStep(t) = "raise"
           THEN /\ Goto(t, "unwind")
                /\ UNCHANGED <<engine_vars, loc>>
           ELSE /\ coherence_states' = InvalidateNext(t, a)
                /\ Advance(t)
                /\ UNCHANGED <<protocol, caches, shared_memory, metrics, pc>>
    /\ UNCHANGED <<observer_vars, caches_order, lock, ops_left>>

\* the Shared write's invalidation loop and, the loop done, the store
W_Upgrade(t) ==
    /\ pc[t] = "upgrade"
    /\ LET a == loc[t].address
       IN  IF IterStale(t)
           THEN /\ Goto(t, "unwind")
                /\ UNCHANGED <<engine_vars, loc>>
           ELSE IF IterDone(t)
           THEN /\ metrics' = Bump(metrics, "coherence_messages", 1)
                /\ StoreNewValue(t, caches, a)
                /\ Goto(t, "release")
                /\ UNCHANGED <<protocol, coherence_states, loc>>
           ELSE IF InvalidateStep(t) = "raise"
           THEN /\ Goto(t, "unwind")
                /\ UNCHANGED <<engine_vars, loc>>
           ELSE /\ coherence_states' = InvalidateNext(t, a)
                /\ Advance(t)
                /\ UNCHANGED <<protocol, caches, shared_memory, metrics, pc>>
    /\ UNCHANGED <<observer_vars, caches_order, lock, ops_left>>

\* the with-statement's exit after a return; time.sleep; the loop's test
W_Release(t) ==
    /\ pc[t] = "release"
    /\ lock' = FALSE
    /\ ops_left' = [ops_left EXCEPT ![t] = @ - 1]
    /\ loc' = [loc EXCEPT ![t] = NoLocals]
    /\ Goto(t, LoopOrDone(ops_left[t] - 1))
    /\ UNCHANGED <<engine_vars, observer_vars, caches_order>>

\* the with-statement's exit on an exception, which ends the thread
W_Unwind(t) ==
    /\ pc[t] = "unwind"
    /\ lock' = FALSE
    /\ loc' = [loc EXCEPT ![t] = NoLocals]
    /\ Goto(t, "crashed")
    /\ UNCHANGED <<engine_vars, observer_vars, caches_order, ops_left>>

NextThreads ==
    \E t \in Threads :
        \/ W_RegCaches(t)
        \/ W_RegStates(t)
        \/ W_Acquire(t)
        \/ W_EnterNone(t)
        \/ W_EnterMesi(t)
        \/ W_Snoop(t)
        \/ W_Branch(t)
        \/ W_Share(t)
        \/ W_Invalidate(t)
        \/ W_Upgrade(t)
        \/ W_Release(t)
        \/ W_Unwind(t)

SpecThreads == Init /\ [][NextThreads]_vars

\* ------------------------------------------------------------------ claims
\* A core's MESI state for an address, a missing record counting as Invalid.
StateAt(tid, address) ==
    IF tid \in DOMAIN coherence_states
       /\ address \in DOMAIN coherence_states[tid]
    THEN coherence_states[tid][address]
    ELSE "I"

Owners(address) == {t \in Cores : StateAt(t, address) \in {"M", "E"}}

Sharers(address) == {t \in Cores : StateAt(t, address) = "S"}

Called == last.core # -1

\* C1: in MESI mode, for every address at most one core holds M or E, and if
\* a core holds M every other core is Invalid (no record counting as Invalid).
C1_MutualExclusivity ==
    protocol = "MESI" =>
        \A a \in Addresses :
            /\ Cardinality(Owners(a)) <= 1
            /\ \A t \in Cores :
                   StateAt(t, a) = "M" =>
                       \A u \in Cores \ {t} : StateAt(u, a) = "I"

\* A write has left its core Modified and invalidated a core that held a copy.
C1_Witness ==
    /\ protocol = "MESI"
    /\ Called /\ last.kind = "write"
    /\ StateAt(last.core, last.addr) = "M"
    /\ \E u \in DOMAIN wr[last.addr].held :
           /\ last.addr \in DOMAIN coherence_states[u]
           /\ coherence_states[u][last.addr] = "I"

\* C2: in MESI mode, if two or more cores hold S for an address then no core
\* holds M or E for it.
C2_SharedCompatibility ==
    protocol = "MESI" =>
        \A a \in Addresses :
            Cardinality(Sharers(a)) >= 2 => Owners(a) = {}

\* A read miss that found another copy has left two or more cores Shared.
C2_Witness ==
    /\ protocol = "MESI"
    /\ Called /\ last.kind = "read" /\ last.d_msgs = 2
    /\ Cardinality(Sharers(last.addr)) >= 2

\* C3: in MESI mode, (a) when A writes X every other core B that holds X
\* cached is Invalid or Shared once the write is done, and (b) the next
\* access to X by such a B, no third core having accessed X in between, is a
\* miss that fills B's cache from the store with the value A wrote, which a
\* Read returns.
C3_MesiFreshness ==
    [][protocol = "MESI" =>
        /\ \A A \in Cores, X \in Addresses, v \in WriteValues :
               Write(A, X, v) =>
                   \A B \in DOMAIN Holders(A, X) :
                       coherence_states'[B][X] \in {"I", "S"}
        /\ \A B \in Cores, X \in Addresses :
               ( /\ B \in DOMAIN wr[X].held
                 /\ ~touched[X]
                 /\ Read(B, X) \/ \E v \in WriteValues : Write(B, X, v) )
               => /\ last'.d_miss = 1
                  /\ last'.fill = wr[X].val
                  /\ last'.fill = shared_memory[X]
                  /\ Read(B, X) =>
                         /\ last'.ret = wr[X].val
                         /\ caches'[B][X] = wr[X].val
      ]_vars

\* B held X with an older value, A wrote X, and B's next access was a Read
\* that missed and returned the value A wrote.
C3_Witness ==
    /\ protocol = "MESI"
    /\ Called /\ last.kind = "read"
    /\ last.core \in DOMAIN wr[last.addr].held
    /\ wr[last.addr].held[last.core] # wr[last.addr].val
    /\ last.d_miss = 1
    /\ last.ret = wr[last.addr].val

\* A worker is inside the body of access_memory: past the with-statement's
\* entry and not yet past its exit.
InBody(t) ==
    pc[t] \in {"enter", "snoop", "branch", "share", "invalidate", "upgrade",
               "release", "unwind"}

\* C4: whatever the number of worker threads and the protocol, at most one
\* call is inside the body of access_memory at a time, and the lock is held
\* for as long as it is.
C4_Serialization ==
    /\ Cardinality({t \in Threads : InBody(t)}) <= 1
    /\ (\E t \in Threads : InBody(t)) => lock

\* One worker is in the middle of a fan-out loop while another, with
\* accesses still to issue, waits outside.
C4_Witness ==
    \E t, u \in Threads :
        /\ t # u
        /\ pc[t] \in {"share", "invalidate", "upgrade"}
        /\ loc[t].it_i > 0
        /\ pc[u] = "loop" /\ ops_left[u] > 0

\* C5 (as claimed): every step that changes the store, a cache, the state
\* table or a counter is taken by a worker that holds the lock.
C5_MutationUnderLock ==
    [][ (engine_vars' # engine_vars) =>
            \E t \in Threads :
                /\ lock /\ InBody(t)
                /\ pc'[t] # pc[t] \/ loc'[t] # loc[t]
      ]_vars

\* C6 (as claimed): in MESI mode a core's cache has an entry for an address
\* exactly when its state for the address is not Invalid.
C6_EntryIffValid ==
    protocol = "MESI" =>
        \A t \in DOMAIN caches, a \in Addresses :
            (a \in DOMAIN caches[t]) <=> (StateAt(t, a) # "I")

\* C7 (as claimed): in mode none, a Read of X by a core B that held X cached
\* when A wrote X returns B's pre-write value, which is not the value A
\* wrote, while the store holds A's value.
C7_StaleRead_AsClaimed ==
    ( /\ protocol = "none"
      /\ Called /\ last.kind = "read"
      /\ last.core \in DOMAIN wr[last.addr].held )
    => /\ last.ret = wr[last.addr].held[last.core]
       /\ last.ret # wr[last.addr].val
       /\ shared_memory[last.addr] = wr[last.addr].val

\* C7 (amended): in mode none, a Read of X by a core B that held X cached
\* when the latest write to X was made by another core is a hit returning
\* the value B held before that write, whether or not that value equals the
\* one written, while the store holds the written value.
C7_StaleRead ==
    ( /\ protocol = "none"
      /\ Called /\ last.kind = "read"
      /\ last.core \in DOMAIN wr[last.addr].held )
    => /\ last.d_miss = 0
       /\ last.ret = wr[last.addr].held[last.core]
       /\ caches[last.core][last.addr] = wr[last.addr].held[last.core]
       /\ shared_memory[last.addr] = wr[last.addr].val

\* B read back its own stale value although the store holds a newer one.
C7_Witness ==
    /\ protocol = "none"
    /\ Called /\ last.kind = "read"
    /\ last.core \in DOMAIN wr[last.addr].held
    /\ last.ret # wr[last.addr].val
    /\ shared_memory[last.addr] = wr[last.addr].val

\* C8: in both modes, the first access to an address no core has touched
\* counts exactly one miss and fills the cache with the baseline 0 the store
\* entry was created with; a Read returns it and leaves it in the store.
C8_MissAccounting ==
    (Called /\ last.fresh) =>
        /\ last.d_miss = 1
        /\ last.fill = Baseline
        /\ last.addr \in DOMAIN shared_memory
        /\ last.kind = "read" =>
               /\ last.ret = Baseline
               /\ shared_memory[last.addr] = Baseline
               /\ caches[last.core][last.addr] = Baseline

\* A first access to an untouched address has happened, as a Write.
C8_Witness == Called /\ last.fresh /\ last.kind = "write" /\ last.d_miss = 1

\* C9: no step decreases a counter, and every access_memory call adds
\* exactly 1 to memory_accesses.
C9_MonotonicMetrics ==
    [][ /\ metrics'.memory_accesses >= metrics.memory_accesses
        /\ metrics'.cache_misses >= metrics.cache_misses
        /\ metrics'.coherence_messages >= metrics.coherence_messages
        /\ (\E t \in Cores, a \in Addresses :
                Read(t, a) \/ \E v \in WriteValues : Write(t, a, v))
           => metrics'.memory_accesses = metrics.memory_accesses + 1
      ]_vars

\* All three counters have advanced, the access counter more than once.
C9_Witness ==
    /\ metrics.memory_accesses >= 2
    /\ metrics.cache_misses >= 1
    /\ metrics.coherence_messages >= 1
    /\ last.d_miss = 0

\* C10: on a fresh MESI engine, (0 writes X; 1 reads X; 1 writes X) gives:
\* a miss, state(0,X)=M, messages +2; then a miss, state(1,X)=state(0,X)=S,
\* messages +2, the value read being the one written first; then no miss,
\* state(1,X)=M, state(0,X)=I, messages +1, the new value in core 1's cache
\* and in the store.
C10_EndToEnd ==
    (protocol = "MESI" /\ on_script /\ Called) =>
        LET X == last.addr
            n == metrics.memory_accesses
        IN  /\ n = 1 =>
                /\ last.d_miss = 1 /\ last.d_msgs = 2
                /\ StateAt(0, X) = "M"
            /\ n = 2 =>
                /\ last.d_miss = 1 /\ last.d_msgs = 2
                /\ StateAt(1, X) = "S" /\ StateAt(0, X) = "S"
                /\ wr[X].core = 0 /\ last.ret = wr[X].val
            /\ n = 3 =>
                /\ last.d_miss = 0 /\ last.d_msgs = 1
                /\ StateAt(1, X) = "M" /\ StateAt(0, X) = "I"
                /\ caches[1][X] = last.ret /\ shared_memory[X] = last.ret
                /\ metrics.cache_misses = 2
                /\ metrics.coherence_messages = 5

\* The three scripted accesses have all been made.
C10_Witness ==
    /\ protocol = "MESI" /\ on_script
    /\ metrics.memory_accesses = 3
    /\ last.core = 1 /\ last.kind = "write"

\* A step that is the Read, or a Write, of core t on address a; the record of
\* the call is compared first, the call itself second.
ReadStep(t, a) ==
    /\ last'.core = t
    /\ last'.addr = a
    /\ Read(t, a)

WriteStep(t, a) ==
    /\ last'.core = t
    /\ last'.addr = a
    /\ \E v \in WriteValues : Write(t, a, v)

\* The (core, address) pairs that have a cache entry.
CachedPairs ==
    {p \in Cores \X Addresses :
        p[1] \in DOMAIN caches /\ p[2] \in DOMAIN caches[p[1]]}

\* The store's value for address as a reader finds it: the baseline when the
\* address was never touched.
StoreValue(address) ==
    IF address \in DOMAIN shared_memory THEN shared_memory[address]
    ELSE Baseline

\* C11: in mode none a core's access to an address it holds no entry for
\* counts exactly one miss, and a Read then returns the value the store held
\* at the call (the baseline 0 if the address was never written); an access
\* to an address the core already holds counts no miss; the number of misses
\* counted so far is the number of (core, address) pairs cached, so no pair
\* is ever charged twice.
C11_OneMissPerPair ==
    [][protocol = "none" =>
        \A t \in Cores, a \in Addresses :
            (ReadStep(t, a) \/ WriteStep(t, a)) =>
                /\ IF a \in DOMAIN caches[t]
                   THEN metrics'.cache_misses = metrics.cache_misses
                   ELSE /\ metrics'.cache_misses = metrics.cache_misses + 1
                        /\ ReadStep(t, a) => last'.ret = StoreValue(a)
                /\ a \in DOMAIN caches'[t]
                /\ metrics'.cache_misses = Cardinality(CachedPairs')]_vars

C11_Witness ==
    /\ protocol = "none"
    /\ Called
    /\ last.kind = "read"
    /\ last.d_miss = 0
    /\ last.ret = 0
    /\ shared_memory[last.addr] = 1
    /\ metrics.cache_misses = 2
    /\ metrics.memory_accesses = 3

\* C12: an access_memory call for a core id that was never registered leaves
\* the store, the caches, the coherence states and the three counters,
\* memory_accesses included, as they were, and leaves the lock free.
C12_AllOrNothing ==
    [][\A t \in Cores, a \in Addresses, k \in AccessTypes :
          AccessUnregistered(t, a, k) =>
              /\ last'.raised
              /\ UNCHANGED engine_vars
              /\ ~lock']_vars

\* C13: an access whose type is neither read nor write raises in both modes,
\* and changes no cache, no store entry and no coherence state.
C13_UnknownTypeRejected ==
    [][\A t \in Cores, a \in Addresses, v \in WriteValues :
          AccessOtherType(t, a, v) =>
              /\ last'.raised
              /\ UNCHANGED <<caches, shared_memory, coherence_states>>]_vars

\* C14: with NumThreads workers of NumOperations accesses each, no access
\* raises, and once every worker has left its loop memory_accesses is
\* NumThreads * NumOperations, in both modes.
C14_Completion ==
    /\ \A t \in Threads : pc[t] \notin {"unwind", "crashed"}
    /\ (\A t \in Threads : pc[t] = "done") =>
           metrics.memory_accesses = NumThreads * NumOperations

\* C15: in MESI mode, whenever a core's state for an address is S, E or M,
\* the core's cached value is the store's current value.
C15_ValueCoherence ==
    protocol = "MESI" =>
        \A t \in DOMAIN caches : \A a \in DOMAIN caches[t] :
            StateAt(t, a) \in {"S", "E", "M"} =>
                caches[t][a] = shared_memory[a]

\* The messages one MESI access is to be charged, from the pre-call state.
Charge(t, a, access_type) ==
    LET miss == a \notin DOMAIN caches[t] \/ StateAt(t, a) = "I"
        other == \E u \in DOMAIN caches :
                     u # t /\ a \in DOMAIN caches[u]
    IN  IF miss
        THEN (IF access_type = "read" /\ ~other THEN 1 ELSE 2)
        ELSE (IF access_type = "write" /\ StateAt(t, a) = "S" THEN 1 ELSE 0)

\* C16: a MESI access raises coherence_messages by exactly 2 on a read miss
\* with another copy, 1 on a read miss without one, 2 on a write miss, 1 on
\* a write hit from Shared, and 0 on a read hit or a write hit from Modified
\* or Exclusive; the miss charge and the Shared-upgrade charge never add up.
C16_MessageAccounting ==
    [][protocol = "MESI" =>
        \A t \in Cores, a \in Addresses :
            /\ ReadStep(t, a) =>
                  metrics'.coherence_messages =
                      metrics.coherence_messages + Charge(t, a, "read")
            /\ WriteStep(t, a) =>
                  metrics'.coherence_messages =
                      metrics.coherence_messages + Charge(t, a, "write")]_vars

C16_Witness ==
    /\ protocol = "MESI"
    /\ Called
    /\ last.kind = "write"
    /\ last.pre = "I"
    /\ last.d_miss = 1
    /\ last.d_msgs = 2
    /\ metrics.coherence_messages = 5
    /\ metrics.memory_accesses = 3

\* C17: right after a Write by a core to an address, in either mode, the
\* value returned, the core's cache entry and the store entry are the same
\* value, on a hit as on a miss.
C17_WriteThrough ==
    (Called /\ last.kind = "write") =>
        /\ last.ret \in WriteValues
        /\ caches[last.core][last.addr] = last.ret
        /\ shared_memory[last.addr] = last.ret

C17_Witness ==
    /\ Called
    /\ last.kind = "write"
    /\ last.d_miss = 0
    /\ last.ret = 1
    /\ caches[last.core][last.addr] = 1
    /\ shared_memory[last.addr] = 1
    /\ \E t \in DOMAIN caches :
          /\ t # last.core
          /\ last.addr \in DOMAIN caches[t]
          /\ caches[t][last.addr] = 0

\* The cores with a coherence record for address.
Recorded(address) ==
    {u \in DOMAIN coherence_states : address \in DOMAIN coherence_states[u]}

\* What the fan-out of one MESI access must leave: the other cores' caches
\* untouched and no record created for a core that had none.
FanOutFrame(t, a) ==
    \A u \in DOMAIN caches \ {t} :
        /\ caches'[u] = caches[u]
        /\ DOMAIN coherence_states'[u] = DOMAIN coherence_states[u]

\* C18: in MESI mode, on a read miss while another core holds a copy, every
\* core with a record for the address, an Invalid one included, ends in S
\* with its cache entry untouched; on a write miss or a write hit from S,
\* every other core with a record ends in I; a core with no record for the
\* address gets none.
C18_FanOutScope ==
    [][protocol = "MESI" =>
        \A t \in Cores, a \in Addresses :
            /\ (ReadStep(t, a) /\ Charge(t, a, "read") = 2) =>
                  /\ \A u \in Recorded(a) \cup {t} :
                        coherence_states'[u][a] = "S"
                  /\ FanOutFrame(t, a)
            /\ (WriteStep(t, a) /\ Charge(t, a, "write") > 0) =>
                  /\ \A u \in Recorded(a) \ {t} :
                        coherence_states'[u][a] = "I"
                  /\ FanOutFrame(t, a)]_vars

C18_Witness ==
    /\ protocol = "MESI"
    /\ Called
    /\ last.kind = "read"
    /\ last.d_msgs = 2
    /\ \E u \in DOMAIN caches :
          /\ u # last.core
          /\ last.addr \in DOMAIN caches[u]
          /\ StateAt(u, last.addr) = "S"
          /\ caches[u][last.addr] # shared_memory[last.addr]

\* C19: in MESI mode, right after a Write by a core to an address, the
\* core's state for the address is M, whatever it was before the call.
C19_WriterEndsModified ==
    (protocol = "MESI" /\ Called /\ last.kind = "write") =>
        StateAt(last.core, last.addr) = "M"

\* C20: in mode none an access by a core leaves every other core's cache as
\* it was; no coherence state ever exists and coherence_messages stays 0; a
\* Read leaves the store as it was, but for the baseline entry it creates
\* for an address never touched before.
C20_NoneFrame ==
    [][protocol = "none" =>
        /\ coherence_states' = << >>
        /\ metrics'.coherence_messages = 0
        /\ \A t \in Cores, a \in Addresses :
              /\ (ReadStep(t, a) \/ WriteStep(t, a)) =>
                    \A u \in DOMAIN caches \ {t} : caches'[u] = caches[u]
              /\ ReadStep(t, a) =>
                    shared_memory' =
                        IF a \in DOMAIN shared_memory THEN shared_memory
                        ELSE Put(shared_memory, a, Baseline)]_vars

C20_Witness ==
    /\ protocol = "none"
    /\ Called
    /\ last.kind = "read"
    /\ coherence_states = << >>
    /\ metrics.coherence_messages = 0
    /\ \E t \in DOMAIN caches :
          /\ t # last.core
          /\ last.addr \in DOMAIN caches[t]
          /\ caches[t][last.addr] # caches[last.core][last.addr]

====
